---- MODULE Spec2Model ----
(***************************************************************************)
(* Model of pershout.py: persistence scores of a point cloud from the      *)
(* minimum spanning tree of its k-nearest-neighbour graph.                 *)
(*                                                                         *)
(* The script is straight-line code; pc is the statement about to run and  *)
(* each action is one statement (the for loop of lines 28-30 is one action *)
(* per iteration).  An uncaught exception ends the script: pc = "aborted"  *)
(* and errline is the line that raised.                                    *)
(*                                                                         *)
(* Points lie on a line (coordinate data[v], Euclidean distance            *)
(* |data[u] - data[v]|).  Every weight is a fixed-point integer counted in *)
(* units of 1e-8 of a coordinate unit, so that line 16's                   *)
(* min * 1.e-8 is exact: a distance d is stored as d * Scale and zero_fix  *)
(* as min \div Scale.                                                      *)
(*                                                                         *)
(* A sparse matrix is the array of its STORED entries <<row, col, weight>> *)
(* in storage order (CSR: row by row), indexed from 0; an entry stored     *)
(* with weight 0 (an explicit zero) is still an entry.  Arrays are         *)
(* functions on 0..n-1.                                                    *)
(***************************************************************************)
EXTENDS Integers, Sequences, FiniteSets, TLC

VARIABLES pc, data, G, zero_fix, MST, lmin, lmax, persist, degree, i, errline

vars == <<pc, data, G, zero_fix, MST, lmin, lmax, persist, degree, i, errline>>

\* Line 10.
n_neighbors == 20
\* Largest number of points of the enumerated inputs that the script rejects.
MaxN == 4
\* Largest coordinate of the enumerated inputs that the script rejects.
MaxCoord == 3
\* Largest number of coincident points of the enumerated inputs of
\* n_neighbors + 1 points, the input of identical points aside.
MaxCoincident == 3
\* The enumerated inputs of two groups of points: the largest number of points
\* of the first group beyond n_neighbors + 1, and the largest number of points
\* of a group that do not coincide with the group's first point.
MaxExtra == 1
MaxSpread == 2
\* The enumerated inputs of two points per position: the last position that
\* the gap of two units can follow.
MaxGap == 3
\* 1 / 1.e-8 (line 16): fixed-point units per coordinate unit.
Scale == 100000000
\* numpy's quicksort sorts a partition of at most SMALL_QUICKSORT + 1 elements
\* by insertion.
SMALL_QUICKSORT == 16

\* The 4 colinear points of the specification's scenario, as data[0..3].
Colinear == [v \in 0..3 |-> IF v = 3 THEN 10 ELSE v]

\* len(data) and range(len(data))
len(pts) == Cardinality(DOMAIN pts)
range(pts) == DOMAIN pts

row(e) == e[1]
col(e) == e[2]
weight(e) == e[3]

\* The stored entries of a sparse matrix.
Entries(m) == {m[x] : x \in DOMAIN m}

Min(S) == CHOOSE x \in S : \A y \in S : x <= y
Max(S) == CHOOSE x \in S : \A y \in S : x >= y
Abs(x) == IF x < 0 THEN -x ELSE x

\* metric = "euclidean" on colinear points, in fixed-point units.
metric(pts, u, v) == Abs(pts[u] - pts[v]) * Scale

\* The entries at the positions keep, in storage order.
Compact(m, keep) ==
  [x \in 0..(Cardinality(keep) - 1) |->
     m[CHOOSE y \in keep : Cardinality({z \in keep : z < y}) = x]]

(***************************************************************************)
(* np.argsort(v) (kind = 'quicksort'): numpy's indirect quicksort.  tosort *)
(* starts as 0..n-1; a partition [pl, pr] of more than SMALL_QUICKSORT + 1 *)
(* elements is split around the median of its first, middle and last       *)
(* element, the larger part is pushed on the stack and the smaller one     *)
(* goes on; a smaller partition is sorted by insertion.  The sort is not   *)
(* stable.  (The heapsort that numpy falls back on after 2 * log2(n)       *)
(* nested splits is left out: no array sorted here nests that deep.)       *)
(*                                                                         *)
(* A loop of the C code is a step operator on the loop's variables, which  *)
(* leaves a finished loop (done) as it is, and a Loop operator that        *)
(* applies the step up to k times (first k \div 2 times, then the rest), k *)
(* being no less than the number of iterations.                            *)
(***************************************************************************)
Swap(ts, x, y) == [ts EXCEPT ![x] = ts[y], ![y] = ts[x]]

\* if (v[*y] < v[*x]) swap(*y, *x)
Order(v, ts, x, y) == IF v[ts[y]] < v[ts[x]] THEN Swap(ts, x, y) ELSE ts

\* do ++pi; while (v[*pi] < vp): where pi stops, starting at position from.
\* The pivot, at pr - 1, stops it.
ScanUp(v, ts, from, pr, vp) ==
  from + (CHOOSE d \in 0..(pr - from) :
            /\ ~(v[ts[from + d]] < vp)
            /\ \A c \in 0..(d - 1) : v[ts[from + c]] < vp)

\* do --pj; while (vp < v[*pj]): where pj stops, starting at position from.
\* The element at pl, no greater than the pivot, stops it.
ScanDown(v, ts, from, pl, vp) ==
  from - (CHOOSE d \in 0..(from - pl) :
            /\ ~(vp < v[ts[from - d]])
            /\ \A c \in 0..(d - 1) : vp < v[ts[from - c]])

\* for (;;) { scan up; scan down; if (pi >= pj) break; swap(*pi, *pj); }
PartitionStep(v, vp, pl, pr, s) ==
  IF s.done THEN s
  ELSE LET ni == ScanUp(v, s.tosort, s.pi + 1, pr, vp)
           nj == ScanDown(v, s.tosort, s.pj - 1, pl, vp)
       IN IF ni >= nj
          THEN [tosort |-> s.tosort, pi |-> ni, pj |-> nj, done |-> TRUE]
          ELSE [tosort |-> Swap(s.tosort, ni, nj), pi |-> ni, pj |-> nj,
                done |-> FALSE]

RECURSIVE PartitionLoop(_, _, _, _, _, _)
PartitionLoop(v, vp, pl, pr, s, k) ==
  IF k <= 1 THEN PartitionStep(v, vp, pl, pr, s)
  ELSE LET half == PartitionLoop(v, vp, pl, pr, s, k \div 2)
       IN IF half.done THEN half
          ELSE PartitionLoop(v, vp, pl, pr, half, k - k \div 2)

\* while (pj > pl && vp < v[*(pj - 1)]) { *pj = *(pj - 1); --pj; }  *pj = vi
RECURSIVE Shift(_, _, _, _, _)
Shift(v, ts, pl, pj, vi) ==
  IF pj > pl /\ v[vi] < v[ts[pj - 1]]
  THEN Shift(v, [ts EXCEPT ![pj] = ts[pj - 1]], pl, pj - 1, vi)
  ELSE [ts EXCEPT ![pj] = vi]

\* for (pi = pl + 1; pi <= pr; ++pi) insert *pi into the sorted [pl, pi - 1]
RECURSIVE Insertion(_, _, _, _, _)
Insertion(v, ts, pl, pi, pr) ==
  IF pi > pr THEN ts
  ELSE Insertion(v, Shift(v, ts, pl, pi, ts[pi]), pl, pi + 1, pr)

\* One turn of the outer loop: a split of [pl, pr], or its insertion sort and
\* the pop of the next partition.
SortStep(v, s) ==
  IF s.done THEN s
  ELSE IF s.pr - s.pl > SMALL_QUICKSORT
  THEN LET pl == s.pl
           pr == s.pr
           pm == pl + ((pr - pl) \div 2)
           median == Order(v, Order(v, Order(v, s.tosort, pl, pm), pm, pr), pl, pm)
           vp == v[median[pm]]
           part == PartitionLoop(v, vp, pl, pr,
                                 [tosort |-> Swap(median, pm, pr - 1),
                                  pi |-> pl, pj |-> pr - 1, done |-> FALSE],
                                 pr - pl)
           split == Swap(part.tosort, part.pi, pr - 1)
       IN IF part.pi - pl < pr - part.pi
          THEN [tosort |-> split, pl |-> pl, pr |-> part.pi - 1,
                stack |-> <<<<part.pi + 1, pr>>>> \o s.stack, done |-> FALSE]
          ELSE [tosort |-> split, pl |-> part.pi + 1, pr |-> pr,
                stack |-> <<<<pl, part.pi - 1>>>> \o s.stack, done |-> FALSE]
  ELSE LET sorted == Insertion(v, s.tosort, s.pl, s.pl + 1, s.pr)
       IN IF s.stack = <<>>
          THEN [s EXCEPT !.tosort = sorted, !.done = TRUE]
          ELSE [tosort |-> sorted, pl |-> Head(s.stack)[1],
                pr |-> Head(s.stack)[2], stack |-> Tail(s.stack),
                done |-> FALSE]

RECURSIVE SortLoop(_, _, _)
SortLoop(v, s, k) ==
  IF k <= 1 THEN SortStep(v, s)
  ELSE LET half == SortLoop(v, s, k \div 2)
       IN IF half.done THEN half ELSE SortLoop(v, half, k - k \div 2)

aquicksort(v) ==
  SortLoop(v, [tosort |-> [x \in DOMAIN v |-> x], pl |-> 0, pr |-> len(v) - 1,
               stack |-> <<>>, done |-> FALSE],
           2 * len(v) + 1)

argsort(v) == aquicksort(v).tosort

(***************************************************************************)
(* np.argpartition(v, kth) for kth = len(v) - 1, as sklearn calls it on a  *)
(* row of n_neighbors + 1 distances: numpy's introselect then only swaps   *)
(* the index of the greatest element, the last one of several equal ones,  *)
(* to the end of 0..n-1.                                                   *)
(***************************************************************************)
RECURSIVE LastMax(_, _, _)
LastMax(v, k, maxidx) ==
  IF k = len(v) THEN maxidx
  ELSE IF v[k] < v[maxidx] THEN LastMax(v, k + 1, maxidx)
  ELSE LastMax(v, k + 1, k)

argpartition(v) ==
  Swap([x \in DOMAIN v |-> x], len(v) - 1, LastMax(v, 1, 0))

(***************************************************************************)
(* kneighbors_graph(data, n_neighbors, mode = 'distance').  algorithm is   *)
(* 'auto': sklearn searches a k-d tree when n_neighbors < N \div 2, and by *)
(* brute force otherwise.  Either search gives, for row r, the k + 1       *)
(* points nearest to r (r is one of the points searched), nearest first,   *)
(* in the order the search leaves equal distances in.  The point r itself  *)
(* is then taken out (include_self is False), the first column when r is   *)
(* not among them.  Row r stores the k points left, in that order,         *)
(* weight = distance, a distance of 0 stored explicitly.                   *)
(*                                                                         *)
(* Brute force, on k + 1 points: the squared distances to all points;      *)
(* argpartition for the k + 1 smallest; argsort of the selected distances. *)
(* No enumerated input has k + 2 to 2 * k + 1 points, where argpartition   *)
(* has to select.                                                          *)
(***************************************************************************)
SquaredDistances(pts, r) ==
  [c \in range(pts) |-> (pts[r] - pts[c]) * (pts[r] - pts[c])]

brute(pts, r) ==
  LET dist == SquaredDistances(pts, r)
      part == argpartition(dist)
      order == argsort([x \in DOMAIN part |-> dist[part[x]]])
  IN [x \in DOMAIN part |-> part[order[x]]]

(***************************************************************************)
(* The k-d tree, on 2 * k + 2 points or more.  leaf_size is 30: a tree of  *)
(* no more than 60 points is one leaf that holds the points in the order   *)
(* of data, and no enumerated input has more.  The query of point r pushes *)
(* every point nearer than the farthest kept one on a max-heap of k + 1    *)
(* (distance, index) pairs, which starts with infinite distances (inf: a   *)
(* number above every distance of the row), and then sorts the heap's      *)
(* arrays by distance with sklearn's own quicksort.                        *)
(***************************************************************************)
dual_swap(h, a, b) == [dist |-> Swap(h.dist, a, b), ind |-> Swap(h.ind, a, b)]

\* NeighborsHeap._push: val goes in at the root and sinks below every greater
\* child, the greater of two children first (the first of two equal ones).
RECURSIVE Sink(_, _, _, _)
Sink(h, x, val, i_val) ==
  LET size == len(h.dist)
      ic1 == 2 * x + 1
      ic2 == ic1 + 1
      i_swap == IF ic1 >= size THEN -1
                ELSE IF ic2 >= size
                THEN (IF h.dist[ic1] > val THEN ic1 ELSE -1)
                ELSE IF h.dist[ic1] >= h.dist[ic2]
                THEN (IF val < h.dist[ic1] THEN ic1 ELSE -1)
                ELSE (IF val < h.dist[ic2] THEN ic2 ELSE -1)
  IN IF i_swap = -1
     THEN [dist |-> [h.dist EXCEPT ![x] = val],
           ind |-> [h.ind EXCEPT ![x] = i_val]]
     ELSE Sink([dist |-> [h.dist EXCEPT ![x] = h.dist[i_swap]],
                ind |-> [h.ind EXCEPT ![x] = h.ind[i_swap]]],
               i_swap, val, i_val)

push(h, val, i_val) == IF val > h.dist[0] THEN h ELSE Sink(h, 0, val, i_val)

\* The leaf's loop, from point c on: if dist_pt < heap.largest(): heap.push(...)
RECURSIVE QueryLeaf(_, _, _)
QueryLeaf(dist, c, h) ==
  IF c = len(dist) THEN h
  ELSE IF dist[c] < h.dist[0] THEN QueryLeaf(dist, c + 1, push(h, dist[c], c))
  ELSE QueryLeaf(dist, c + 1, h)

\* if dist[a] > dist[b]: dual_swap(dist, idx, a, b)
Ordered(h, a, b) == IF h.dist[a] > h.dist[b] THEN dual_swap(h, a, b) ELSE h

\* The median of the first, middle and last element goes to the end, the
\* smallest of the three to the front.
MedianOfThree(h, lo, size) ==
  LET last == lo + size - 1
      mid == lo + size \div 2
      h1 == Ordered(h, lo, last)
  IN IF h1.dist[last] > h1.dist[mid]
     THEN Ordered(dual_swap(h1, last, mid), lo, last)
     ELSE h1

\* for i in range(size - 1): if dist[i] < pivot_val: swap i and store_idx,
\* store_idx += 1; then the pivot, at the end, is swapped to store_idx.
RECURSIVE PartitionAbout(_, _, _, _, _, _)
PartitionAbout(h, lo, size, x, store_idx, pivot_val) ==
  IF x = size - 1
  THEN [heap |-> dual_swap(h, lo + store_idx, lo + size - 1),
        pivot_idx |-> store_idx]
  ELSE IF h.dist[lo + x] < pivot_val
  THEN PartitionAbout(dual_swap(h, lo + x, lo + store_idx), lo, size,
                      x + 1, store_idx + 1, pivot_val)
  ELSE PartitionAbout(h, lo, size, x + 1, store_idx, pivot_val)

\* _simultaneous_sort of the size elements from position lo on.
RECURSIVE simultaneous_sort(_, _, _)
simultaneous_sort(h, lo, size) ==
  IF size <= 1 THEN h
  ELSE IF size = 2 THEN Ordered(h, lo, lo + 1)
  ELSE IF size = 3
  THEN LET h1 == Ordered(h, lo, lo + 1)
       IN IF h1.dist[lo + 1] > h1.dist[lo + 2]
          THEN Ordered(dual_swap(h1, lo + 1, lo + 2), lo, lo + 1)
          ELSE h1
  ELSE LET median == MedianOfThree(h, lo, size)
           part == PartitionAbout(median, lo, size, 0, 0,
                                  median.dist[lo + size - 1])
           p == part.pivot_idx
           left == IF p > 1 THEN simultaneous_sort(part.heap, lo, p)
                   ELSE part.heap
       IN IF p + 2 < size
          THEN simultaneous_sort(left, lo + p + 1, size - p - 1)
          ELSE left

\* KDTree.query(data, k)[r], indices only.
query(pts, r, k) ==
  LET dist == SquaredDistances(pts, r)
      inf == 1 + Max({dist[c] : c \in range(pts)})
      heap == QueryLeaf(dist, 0, [dist |-> [x \in 0..(k - 1) |-> inf],
                                  ind |-> [x \in 0..(k - 1) |-> 0]])
  IN simultaneous_sort(heap, 0, k).ind

kneighbors(pts, r, k) ==
  LET neigh_ind == IF k < len(pts) \div 2 THEN query(pts, r, k + 1)
                   ELSE brute(pts, r)
      self == IF \E x \in DOMAIN neigh_ind : neigh_ind[x] = r
              THEN CHOOSE x \in DOMAIN neigh_ind : neigh_ind[x] = r
              ELSE 0
  IN [x \in 0..(k - 1) |->
        IF x < self THEN neigh_ind[x] ELSE neigh_ind[x + 1]]

\* A_ind: the rows r, r + 1, ... of the neighbour indices, as a sequence.
RECURSIVE A_ind(_, _, _)
A_ind(pts, r, k) ==
  IF r = len(pts) THEN <<>>
  ELSE <<kneighbors(pts, r, k)>> \o A_ind(pts, r + 1, k)

\* csr_matrix((A_data, A_ind.ravel(), A_indptr)): k entries per row.
csr_matrix(pts, k, ind) ==
  [x \in 0..(len(pts) * k - 1) |->
     <<x \div k, ind[x \div k + 1][x % k],
       metric(pts, x \div k, ind[x \div k + 1][x % k])>>]

kneighbors_graph(pts, k) == csr_matrix(pts, k, A_ind(pts, 0, k))

\* Mutant of PositiveData: the selection G.data >= 0.
PositiveData_NonNegative(g) == {weight(e) : e \in Entries(g)}

\* G.data[G.data > 0]
PositiveData(g) == {weight(e) : e \in {x \in Entries(g) : weight(x) > 0}}

\* Mutant of ZeroFixValue: the factor 1.e-8 left out.
ZeroFixValue_Unscaled(g) == Min(PositiveData(g))

\* G.data[G.data > 0].min() * 1.e-8
ZeroFixValue(g) == Min(PositiveData(g)) \div Scale

\* G.data[G.data == 0] = zero_fix
ZeroFixed(g, eps) ==
  [x \in DOMAIN g |->
     <<row(g[x]), col(g[x]), IF weight(g[x]) = 0 THEN eps ELSE weight(g[x])>>]

(***************************************************************************)
(* scipy's minimum_spanning_tree: Kruskal with union-find.  The stored     *)
(* entries are visited in the order i_sort = np.argsort(data); an entry    *)
(* whose endpoints have different roots is selected and the roots are      *)
(* united, any other entry is zeroed and then dropped by eliminate_zeros.  *)
(* A selected entry keeps its weight and stays where it is stored, in      *)
(* row(e) only.  comp maps a vertex to its union-find root; Kruskal is the *)
(* set of the positions of the entries selected from position x of the     *)
(* visiting order on.                                                      *)
(***************************************************************************)
RECURSIVE Relabel(_, _, _, _)
Relabel(comp, from, to, v) ==
  IF v = len(comp) THEN comp
  ELSE IF comp[v] = from
  THEN Relabel([comp EXCEPT ![v] = to], from, to, v + 1)
  ELSE Relabel(comp, from, to, v + 1)

Union(comp, e) == Relabel(comp, comp[col(e)], comp[row(e)], 0)

\* The entry at position y of the visiting order joins two trees.
Joins(g, i_sort, y, comp) ==
  comp[row(g[i_sort[y]])] # comp[col(g[i_sort[y]])]

\* The first position from x on whose entry is selected, len(g) if none is.
NextSelected(g, i_sort, x, comp) ==
  IF \E y \in x..(len(g) - 1) : Joins(g, i_sort, y, comp)
  THEN CHOOSE y \in x..(len(g) - 1) :
         /\ Joins(g, i_sort, y, comp)
         /\ \A c \in x..(y - 1) : ~Joins(g, i_sort, c, comp)
  ELSE len(g)

RECURSIVE Kruskal(_, _, _, _)
Kruskal(g, i_sort, x, comp) ==
  LET y == NextSelected(g, i_sort, x, comp)
  IN IF y = len(g) THEN {}
     ELSE {i_sort[y]} \cup Kruskal(g, i_sort, y + 1, Union(comp, g[i_sort[y]]))

minimum_spanning_tree(g, verts) ==
  Compact(g, Kruskal(g, argsort([x \in DOMAIN g |-> weight(g[x])]), 0,
                     [v \in verts |-> v]))

\* Mutant of Restored: the assigned zero is not stored (the entry is dropped).
Restored_Eliminating(t, eps) ==
  Compact(t, {x \in DOMAIN t : weight(t[x]) # eps})

\* MST[MST == zero_fix] = 0 : the entry stays stored, with weight 0.
Restored(t, eps) ==
  [x \in DOMAIN t |->
     <<row(t[x]), col(t[x]), IF weight(t[x]) = eps THEN 0 ELSE weight(t[x])>>]

\* MST[MST > 0]
PositiveEntries(t) == {weight(e) : e \in {x \in Entries(t) : weight(x) > 0}}

\* MST.getnnz(1): stored entries per row, explicit zeros included.
getnnz(t, verts) ==
  [v \in verts |-> Cardinality({x \in DOMAIN t : row(t[x]) = v})]

\* MST[i][MST[i] > 0.]
RowPositive(t, v) ==
  {weight(e) : e \in {x \in Entries(t) : row(x) = v /\ weight(x) > 0}}

(***************************************************************************)
(* (persist - lmin) / (lmax - lmin) in floating point: a quotient is kept  *)
(* as numerator and denominator.  Division by 0.0 does not raise in numpy: *)
(* den = 0 stands for -inf (num < 0), nan (num = 0) or +inf (num > 0).     *)
(***************************************************************************)
Divide(a, b) == [num |-> a, den |-> b]

Normalized(p, lo, hi) == [v \in DOMAIN p |-> Divide(p[v] - lo, hi - lo)]

(***************************************************************************)
(* The order of the scores for np.argsort(persist) of line 34: -inf first  *)
(* and nan last.  All scores of one run share their denominator, so        *)
(* SortKey orders them.  Line 33 raises before line 34 on every run, so no *)
(* action sorts the scores: Ranking states what line 34 computes from the  *)
(* scores of line 32.                                                      *)
(***************************************************************************)
SortKey(q) ==
  IF q.den > 0 THEN q.num
  ELSE IF q.num < 0 THEN -1 ELSE IF q.num > 0 THEN 1 ELSE 2

Ranking(p) == argsort([v \in DOMAIN p |-> SortKey(p[v])])

\* The inputs that the script rejects, having no more than n_neighbors points:
\* 2..MaxN points with coordinates in 0..MaxCoord, listed in non-decreasing
\* order from coordinate 0, and the scenario.
Sorted(pts) ==
  /\ pts[0] = 0
  /\ \A u \in DOMAIN pts : \A v \in DOMAIN pts : u < v => pts[u] <= pts[v]

Rejected ==
  UNION {{pts \in [0..(n - 1) -> 0..MaxCoord] : Sorted(pts)} : n \in 2..MaxN}
    \cup {Colinear}

\* n_neighbors + 1 points: a coincident points at 0 and then points one unit
\* apart, except for two units between point p - 1 and point p.
Cloud(a, p) ==
  [v \in 0..n_neighbors |->
     IF v < a THEN 0 ELSE (v - a + 1) + (IF v >= p THEN 1 ELSE 0)]

\* Two groups of points: n_neighbors + 1 + m points, all at 0 but s of them,
\* which are at 1, ..., s; and n_neighbors + 1 points, all at far but t of
\* them, which are at far + 1, ..., far + t.
Groups(m, s, t, far) ==
  [v \in 0..(2 * n_neighbors + 1 + m) |->
     IF v <= n_neighbors + m
     THEN Max({0, v - (n_neighbors + m - s)})
     ELSE far + Max({0, v - (2 * n_neighbors + 1 + m - t)})]

\* Two points at every position of n_neighbors + 1 positions, one unit apart
\* except for two units before position p.
Doubled(p) ==
  [v \in 0..(2 * n_neighbors + 1) |->
     v \div 2 + (IF v \div 2 >= p THEN 1 ELSE 0)]

\* The inputs that the script accepts: those of n_neighbors + 1 points, whose
\* neighbour graph holds every pair of points, and those of 2 * n_neighbors
\* + 2 points or more, where a point is not a neighbour of every other point.
\* No coordinate is above n_neighbors + 1 = 21, which keeps every weight, in
\* units of 1e-8, below 2^31.
Accepted ==
  {Cloud(a, p) : a \in (1..MaxCoincident) \cup {n_neighbors + 1},
                 p \in 1..(n_neighbors + 1)}
    \cup {Groups(m, s, t, n_neighbors + 1 - MaxSpread) :
            m \in 0..MaxExtra, s \in 0..MaxSpread, t \in 0..MaxSpread}
    \cup {Doubled(p) : p \in 1..MaxGap}

Inputs == Rejected \cup Accepted

Init ==
  /\ pc = "kneighbors_graph"
  /\ data \in Inputs
  /\ G = <<>>
  /\ zero_fix = 0
  /\ MST = <<>>
  /\ lmin = 0
  /\ lmax = 0
  /\ persist = <<>>
  /\ degree = <<>>
  /\ i = 0
  /\ errline = 0

Abort(line) ==
  /\ pc' = "aborted"
  /\ errline' = line

\* Lines 13-14.  sklearn raises ValueError unless n_neighbors < n_samples.
BuildGraph ==
  /\ pc = "kneighbors_graph"
  /\ IF n_neighbors >= len(data)
     THEN Abort(13) /\ UNCHANGED G
     ELSE /\ G' = kneighbors_graph(data, n_neighbors)
          /\ pc' = "zero_fix"
          /\ UNCHANGED errline
  /\ UNCHANGED <<data, zero_fix, MST, lmin, lmax, persist, degree, i>>

\* Lines 16-17.  .min() of an empty selection raises ValueError.
ZeroFix ==
  /\ pc = "zero_fix"
  /\ IF PositiveData(G) = {}
     THEN Abort(16) /\ UNCHANGED <<G, zero_fix>>
     ELSE /\ zero_fix' = ZeroFixValue(G)
          /\ G' = ZeroFixed(G, zero_fix')
          /\ pc' = "minimum_spanning_tree"
          /\ UNCHANGED errline
  /\ UNCHANGED <<data, MST, lmin, lmax, persist, degree, i>>

\* Line 20.  overwrite = True: the tree is built in G's own arrays.
ExtractMST ==
  /\ pc = "minimum_spanning_tree"
  /\ MST' = minimum_spanning_tree(G, range(data))
  /\ G' = MST'
  /\ pc' = "restore"
  /\ UNCHANGED <<data, zero_fix, lmin, lmax, persist, degree, i, errline>>

\* Line 22.
Restore ==
  /\ pc = "restore"
  /\ MST' = Restored(MST, zero_fix)
  /\ pc' = "lminmax"
  /\ UNCHANGED <<data, G, zero_fix, lmin, lmax, persist, degree, i, errline>>

\* Lines 24-25.  .min() of an empty selection raises ValueError.
Range ==
  /\ pc = "lminmax"
  /\ IF PositiveEntries(MST) = {}
     THEN Abort(24) /\ UNCHANGED <<lmin, lmax>>
     ELSE /\ lmin' = Min(PositiveEntries(MST))
          /\ lmax' = Max(PositiveEntries(MST))
          /\ pc' = "persist"
          /\ UNCHANGED errline
  /\ UNCHANGED <<data, G, zero_fix, MST, persist, degree, i>>

\* Lines 26-27.
InitPersist ==
  /\ pc = "persist"
  /\ persist' = [v \in range(data) |-> 0]
  /\ degree' = getnnz(MST, range(data))
  /\ i' = 0
  /\ pc' = "for"
  /\ UNCHANGED <<data, G, zero_fix, MST, lmin, lmax, errline>>

\* Lines 28-30, one iteration.  .min() of an empty selection raises ValueError.
ScoreStep ==
  /\ pc = "for"
  /\ i < len(data)
  /\ IF degree[i] > 0 /\ RowPositive(MST, i) = {}
     THEN Abort(30) /\ UNCHANGED <<persist, i>>
     ELSE /\ persist' = IF degree[i] > 0
                        THEN [persist EXCEPT ![i] = Min(RowPositive(MST, i))]
                        ELSE persist
          /\ i' = i + 1
          /\ pc' = IF i + 1 < len(data) THEN "for" ELSE "normalize"
          /\ UNCHANGED errline
  /\ UNCHANGED <<data, G, zero_fix, MST, lmin, lmax, degree>>

\* Line 32.
Normalize ==
  /\ pc = "normalize"
  /\ persist' = Normalized(persist, lmin, lmax)
  /\ pc' = "print"
  /\ UNCHANGED <<data, G, zero_fix, MST, lmin, lmax, degree, i, errline>>

\* Line 33.  np.where(cond) returns a tuple of index arrays, and a tuple has
\* no attribute shape: the statement raises AttributeError, so lines 34-36
\* never run.
PrintShape ==
  /\ pc = "print"
  /\ Abort(33)
  /\ UNCHANGED <<data, G, zero_fix, MST, lmin, lmax, persist, degree, i>>

Next ==
  \/ BuildGraph
  \/ ZeroFix
  \/ ExtractMST
  \/ Restore
  \/ Range
  \/ InitPersist
  \/ ScoreStep
  \/ Normalize
  \/ PrintShape

Spec == Init /\ [][Next]_vars

(***************************************************************************)
(* Vocabulary of the properties.                                           *)
(***************************************************************************)
N == len(data)
V == range(data)

Aborted(line) == pc = "aborted" /\ errline = line

\* Line 22 has run: MST is the forest that lmin, lmax and persist are read from.
AfterRestore ==
  \/ pc \in {"lminmax", "persist", "for", "normalize", "print"}
  \/ Aborted(24) \/ Aborted(30) \/ Aborted(33)

\* The vertices joined to a vertex of S by entries read as undirected edges.
RECURSIVE Reach(_, _)
Reach(edges, S) ==
  LET T == S \cup {col(e) : e \in {x \in edges : row(x) \in S}}
              \cup {row(e) : e \in {x \in edges : col(x) \in S}}
  IN IF T = S THEN S ELSE Reach(edges, T)

Joined(edges, a, b) == b \in Reach(edges, {a})

\* Connected components, among the vertices verts, of the undirected edges.
RECURSIVE Components(_, _)
Components(edges, verts) ==
  IF verts = {} THEN 0
  ELSE 1 + Components(edges, verts \ Reach(edges, {CHOOSE v \in verts : TRUE}))

NumComponents(m) == Components(Entries(m), V)

\* No cycle: every stored entry joins two components (an edge stored in both
\* directions counts twice, and is a cycle).
Acyclic(m) ==
  /\ \A e \in Entries(m) : row(e) # col(e)
  /\ Cardinality(Entries(m)) = len(m)
  /\ NumComponents(m) = N - len(m)

Places(m) == {<<row(e), col(e)>> : e \in Entries(m)}

\* Some entry is stored without the opposite entry.
Asymmetric(m) == \E e \in Entries(m) : <<col(e), row(e)>> \notin Places(m)

\* Pairs of points that store each other with weight w.
MutualPairs(m, w) ==
  LET stored == Entries(m)
  IN {p \in V \X V : /\ p[1] < p[2]
                     /\ <<p[1], p[2], w>> \in stored
                     /\ <<p[2], p[1], w>> \in stored}

\* The pair's own entry, in either row, is in m with weight w.
Selected(m, p, w) ==
  <<p[1], p[2], w>> \in Entries(m) \/ <<p[2], p[1], w>> \in Entries(m)

ThirdCoincident(p) == \E c \in V \ {p[1], p[2]} : data[c] = data[p[1]]

ZeroEdges(m) == {e \in Entries(m) : weight(e) = 0}

\* Weights of the forest edges that touch v, whichever row stores them.
IncidentPositive(m, v) ==
  {weight(e) : e \in {x \in Entries(m) :
                        (row(x) = v \/ col(x) = v) /\ weight(x) > 0}}

InUnitInterval(q) == q.den > 0 /\ 0 <= q.num /\ q.num <= q.den

\* C1: for a valid input with lmin # lmax, every score that line 32 leaves
\* in persist lies in [0, 1] (the script has no sentinel value).
C1_ScoresInUnitInterval ==
  (pc = "print" /\ lmin # lmax) => \A v \in V : InUnitInterval(persist[v])

\* C2: when the scoring loop is over, persist[v] is the least positive weight
\* over all forest edges that touch v, whichever row stores the edge.
C2_MinOverIncidentEdges ==
  pc = "normalize" =>
    \A v \in V : IncidentPositive(MST, v) # {} =>
                   persist[v] = Min(IncidentPositive(MST, v))

\* C3: a vertex whose row of the forest is empty (degree 0) is not given the
\* raw persistence 0 or any other weight, and is not given a numeric score by
\* the normalization.
C3_DisconnectedSentinel ==
  /\ pc = "normalize" => \A v \in V : degree[v] = 0 => persist[v] \notin Nat
  /\ pc = "print" => \A v \in V : degree[v] = 0 => persist[v] \notin [num : Int, den : Int]

\* C4: on the points 0, 1, 2, 10 the script gets through the normalization of
\* line 32; its forest is {0-1 (1), 1-2 (1), 2-3 (8)}, lmin = 1, lmax = 8, the
\* raw persistence is 1, 1, 1, 8 and the normalized scores are 0, 0, 0, 1.
C4_ColinearScenario ==
  data = Colinear =>
    /\ pc = "aborted" => errline = 33
    /\ AfterRestore =>
         {<<{row(e), col(e)}, weight(e)>> : e \in Entries(MST)}
           = {<<{0, 1}, Scale>>, <<{1, 2}, Scale>>, <<{2, 3}, 8 * Scale>>}
    /\ pc \in {"persist", "for", "normalize", "print"} =>
         lmin = Scale /\ lmax = 8 * Scale
    /\ pc = "normalize" =>
         persist = [v \in 0..3 |-> IF v = 3 THEN 8 * Scale ELSE Scale]
    /\ pc = "print" =>
         persist = [v \in 0..3 |-> Divide(IF v = 3 THEN 7 * Scale ELSE 0, 7 * Scale)]

\* C5: when lmin = lmax the division of line 32 is never performed: the
\* script stops with an error before it and leaves no scores.
C5_DegenerateRangeFails ==
  (pc = "print" \/ Aborted(33)) => lmax # lmin

\* What C6 says of lines 16-17 and of line 22.  Lines 16-17: with a coincident
\* pair in each other's neighbour set and a positive stored weight, the
\* sanitizer does not fail and the pair's entries stay stored, with the
\* positive weight zero_fix.  Line 22: the forest keeps its edges, none has
\* weight zero_fix, and each has its distance as weight: exactly 0 between
\* coincident points, and not 0 between points at different positions.
C6_SanitizerStep ==
  (pc = "zero_fix" /\ MutualPairs(G, 0) # {} /\ PositiveData(G) # {}) =>
    /\ pc' = "minimum_spanning_tree"
    /\ zero_fix' > 0
    /\ MutualPairs(G, 0) \subseteq MutualPairs(G', zero_fix')

C6_RestoreStep ==
  pc = "restore" =>
    /\ Places(MST') = Places(MST)
    /\ len(MST') = len(MST)
    /\ \A e \in Entries(MST') : /\ weight(e) # zero_fix
                                 /\ weight(e) = metric(data, row(e), col(e))

\* C6 as stated: the edge of such a pair is selected into the forest by line
\* 20 (and then restored to exactly 0 by line 22).
C6_PairEdgeSelected ==
  [][/\ C6_SanitizerStep
     /\ pc = "minimum_spanning_tree" =>
          \A p \in MutualPairs(G, zero_fix) : Selected(MST', p, zero_fix)
     /\ C6_RestoreStep]_vars

\* C6 amended: line 20 selects the pair's own edge when no third point
\* coincides with the pair; in every case it joins the pair's two points by
\* selected edges of weight zero_fix (restored to exactly 0 by line 22).
C6_PairJoinedAtZero ==
  [][/\ C6_SanitizerStep
     /\ pc = "minimum_spanning_tree" =>
          \A p \in MutualPairs(G, zero_fix) :
            /\ Joined({e \in Entries(MST') : weight(e) = zero_fix}, p[1], p[2])
            /\ ~ThirdCoincident(p) => Selected(MST', p, zero_fix)
     /\ C6_RestoreStep]_vars

\* Witness of C6: line 22 has run on a forest that holds, now with weight 0,
\* the edge of two coincident points that no third point coincides with,
\* beside an edge of positive weight.
C6_Witness ==
  /\ pc = "lminmax"
  /\ \E p \in V \X V : /\ p[1] < p[2]
                       /\ data[p[1]] = data[p[2]]
                       /\ ~ThirdCoincident(p)
                       /\ Selected(MST, p, 0)
  /\ PositiveEntries(MST) # {}

\* C7: when every stored weight of the neighbour graph is 0, the script stops
\* with the error of line 16, before line 20: no forest, no persistence
\* vector and no score exists.
C7_AllZeroAborts ==
  (G # <<>> /\ \A e \in Entries(G) : weight(e) = 0) =>
    \/ pc = "zero_fix"
    \/ /\ Aborted(16)
       /\ zero_fix = 0
       /\ MST = <<>>
       /\ persist = <<>>
       /\ degree = <<>>

\* Witness of C7: identical points, more than n_neighbors of them, stopped at
\* line 16.
C7_Witness ==
  /\ Aborted(16)
  /\ N > n_neighbors
  /\ \A u \in V : data[u] = data[0]

\* C8: the forest of line 20 has no cycle and has N minus (number of
\* components of the undirected neighbour graph) edges; line 22 keeps the
\* edges of that forest, so the restored forest has no cycle and as many edges.
C8_SpanningForest ==
  [][/\ pc = "minimum_spanning_tree" =>
          /\ Acyclic(MST')
          /\ len(MST') = N - NumComponents(G)
     /\ pc = "restore" =>
          /\ Acyclic(MST')
          /\ len(MST') = len(MST)]_vars

\* Witness of C8: the restored forest of a neighbour graph that is asymmetric
\* (it stores an entry without the opposite one) and has two components: N - 2
\* edges, zero-weight edges between coincident points and positive ones.
C8_Witness ==
  /\ pc = "lminmax"
  /\ N > 2 * n_neighbors + 1
  /\ len(MST) = N - 2
  /\ Cardinality(ZeroEdges(MST)) >= 2
  /\ PositiveEntries(MST) # {}
  /\ Asymmetric(kneighbors_graph(data, n_neighbors))
  /\ NumComponents(kneighbors_graph(data, n_neighbors)) = 2

\* C9: when the scores are normalized with lmin # lmax, the script goes on to
\* rank them, and in the ranking idx that line 34 computes no vertex of degree
\* 0 stands before a vertex with a forest edge.
C9_DisconnectedRankLast ==
  lmin # lmax =>
    /\ ~Aborted(33)
    /\ pc = "print" =>
         \A a \in V : \A b \in V :
           a < b => ~(/\ degree[Ranking(persist)[a]] = 0
                      /\ degree[Ranking(persist)[b]] > 0)

\* C10: whenever the loop takes the branch degree[i] > 0, row i of the forest
\* holds a positive weight, and the loop never aborts.
C10_RowHasPositiveWeight ==
  /\ (pc = "for" /\ i < N /\ degree[i] > 0) => RowPositive(MST, i) # {}
  /\ ~Aborted(30)

====
